---- MODULE Spec2Model ----
(***************************************************************************)
(* Model of extract_audio.py: the resumable batch pipeline that extracts   *)
(* audio from the video files of a directory.  One orchestrating process   *)
(* per run; the ledger file and the output directory outlive the runs.     *)
(* The output format is fixed to mp3 (the ledger file is per format).      *)
(* A second specification starts the first run on a ledger file the        *)
(* program did not write; a third follows one call of the worker function  *)
(* (quality resolver, format dispatch, ffmpeg) for every format.            *)
(***************************************************************************)
EXTENDS Integers, FiniteSets, Sequences, TLC

\* ------------------------------------------------------------------ bounds
MaxRuns == 2          \* consecutive runs of the program
MaxJobs == 2          \* largest value of the -j option that is tried
MaxCpu == 2           \* largest multiprocessing.cpu_count() that is tried

\* --------------------------------------------------------------- the files
\* Candidate inputs (basenames).  a.mp4 and a.mkv share the stem "a".
Items == {"a.mp4", "a.mkv", "b.mp4"}

\* Path(video_file).stem followed by ".mp3": the output file of an input.
AudioFile(v) == IF v \in {"a.mp4", "a.mkv"} THEN "a.mp3" ELSE "b.mp3"

AudioFiles == {AudioFile(v) : v \in Items}

\* The contents of the input directory that are tried (get_video_files).
InputDirs == {{}, {"b.mp4"}, {"a.mp4", "b.mp4"}, {"a.mp4", "a.mkv"}}

\* An output file is [st, src].  st: none (absent), empty (size 0), partial
\* (size > 0, left by a conversion that did not finish), full (written by a
\* conversion that exited 0).  src: the input whose conversion wrote it last.
NoFile == [st |-> "none", src |-> "-"]


EmptyMap == [k \in {} |-> 0]

\* Mutant: the assignment replaces the ledger by the one new entry.
Put_replace(m, k, v) == [x \in {k} |-> v]

Put(m, k, v) == [x \in (DOMAIN m) \cup {k} |-> IF x = k THEN v ELSE m[x]]

VARIABLES
  ledger_file,          \* extraction_record_mp3.json: [st, data]
  out_files,            \* the output directory: AudioFiles -> [st, src]
  run,                  \* number of runs started
  pc,                   \* position of the orchestrating process
  video_files,          \* candidates found in the input directory
  current_record_file,  \* global: "None" or the ledger file name
  record,               \* main's local: the loaded and merged ledger
  current_record,       \* global: the in-memory ledger
  pending_files, completed_files,
  partitioned,          \* lines 473-480 have run in this run
  max_workers,
  job,                  \* per pending item: state of its conversion job
  pool_alive,           \* the worker processes are still alive
  cur,                  \* item whose result main holds ("-" if none)
  success_count,
  exit_code,            \* -1 while running
  interrupted,          \* signal_handler has run in this run
  save_count,           \* history: per item, persists done on its completion
  prev,                 \* history: how the previous run ended
  worker_handler,       \* the signal_handler the pool's processes inherited
  worker,               \* one call of extract_audio_from_video_worker, step by step
  chooser,              \* one evaluation of lines 518-525
  ledger_writable       \* environment: the ledger file can be opened for writing

vars == <<ledger_file, out_files, run, pc, video_files, current_record_file,
          record, current_record, pending_files, completed_files, partitioned,
          max_workers, job, pool_alive, cur, success_count, exit_code,
          interrupted, save_count, prev, worker_handler, worker, chooser,
          ledger_writable>>

\* The variables of the orchestrating process and of the disk.
pipeline == <<ledger_file, out_files, run, pc, video_files, current_record_file,
              record, current_record, pending_files, completed_files, partitioned,
              max_workers, job, pool_alive, cur, success_count, exit_code,
              interrupted, save_count, prev, worker_handler>>

\* What no step of the pipeline changes, and likewise for a worker call.
beside_pipeline == <<worker, chooser, ledger_writable>>
beside_worker == <<pipeline, chooser, ledger_writable>>

disk == <<ledger_file, out_files>>

RecordFileName == "extraction_record_mp3.json"

\* ------------------------------------------------------- ledger functions
\* The record check_existing_audio_files builds (no 'quality' field).
AutoRecord(v) ==
  [status |-> "completed", output_file |-> AudioFile(v), audio_format |-> "mp3",
   detected |-> "auto", timestamp |-> "mtime"]

\* The record main builds after a successful job (no 'detected' field).
RunRecord(v, q) ==
  [status |-> "completed", output_file |-> AudioFile(v), audio_format |-> "mp3",
   quality |-> q, timestamp |-> "now"]

\* os.path.exists(audio_file) and os.path.getsize(audio_file) > 0
ExistsNonEmpty(f) == f.st \in {"partial", "full"}

check_existing_audio_files(files, dir) ==
  [v \in {x \in files : ExistsNonEmpty(dir[AudioFile(x)])} |-> AutoRecord(v)]

\* json.load of the file; a missing or unparsable file gives {}.  A file
\* with st = "scalar" is valid JSON that is null, a number or a string:
\* json.load returns that value (it has no keys; see CopyRaises).
load_extraction_record(file) ==
  IF file.st = "ok" THEN file.data ELSE EmptyMap

\* Line 462, record.copy(): None, int and str have no method copy, the call
\* raises AttributeError and nothing catches it.
CopyRaises(file) == file.st = "scalar"

\* Line 477, record[video_name]['status']: a record without the key raises
\* KeyError and nothing catches it.
StatusRaises(rec, files) ==
  \E v \in files : v \in DOMAIN rec /\ "status" \notin DOMAIN rec[v]

\* open(record_file, 'w') truncates the file in place ...
TruncatedFile == [st |-> "torn", data |-> EmptyMap]

\* Mutant: the dump is left out (the "# pass" of line 206 in its place).
WrittenFile_nodump(rec) == [st |-> "torn", data |-> EmptyMap]

\* ... and json.dump followed by close leaves the whole snapshot.
WrittenFile(rec) == [st |-> "ok", data |-> rec]

\* save_extraction_record (201-208) as a whole, where no step can come in
\* between: an open that fails raises OSError, which is caught and logged.
SaveResult(file, rec) == IF ledger_writable THEN WrittenFile(rec) ELSE file

\* Mutant: the handlers leave the file as it is.
HandlerSave_skip(file) == file

\* Mutant: the handlers save without looking at the two globals.
HandlerSave_always(file) == WrittenFile(current_record)

\* signal_handler and atexit_handler: save only a non-empty ledger.
HandlerSave(file) ==
  IF current_record_file # "None" /\ current_record # EmptyMap
  THEN SaveResult(file, current_record) ELSE file

\* Mutant: the membership test of line 469 is inverted.
Merge_inverted(rec, auto) ==
  [k \in DOMAIN rec |-> IF k \in DOMAIN auto THEN auto[k] ELSE rec[k]]

\* The merge of lines 468-471: auto-detected records for absent keys only.
Merge(rec, auto) ==
  [k \in (DOMAIN rec) \cup (DOMAIN auto) |-> IF k \in DOMAIN rec THEN rec[k] ELSE auto[k]]

\* Mutant: the filter compares the status with the wrong word.
IsCompleted_wrongword(rec, v) == v \in DOMAIN rec /\ rec[v].status = "complete"

\* The filter of lines 475-480.
IsCompleted(rec, v) == v \in DOMAIN rec /\ rec[v].status = "completed"

\* Mutant: the smallest of the three numbers, whatever -j says.
MaxWorkers_min3(sequential, jobs, cpu, npending) ==
  IF sequential THEN 1
  ELSE IF jobs <= cpu /\ jobs <= npending THEN jobs
  ELSE IF cpu < npending THEN cpu ELSE npending

\* Lines 518-525.
MaxWorkers(sequential, jobs, cpu, npending) ==
  IF sequential THEN 1
  ELSE IF jobs > 0 THEN jobs
  ELSE IF cpu < npending THEN cpu ELSE npending

\* logging.info(..., end="") at line 548: Logger._log() takes no keyword
\* 'end', so the call raises TypeError before the first conversion.
LoggingInfoRaises(kwargs) ==
  kwargs \ {"exc_info", "extra", "stack_info", "stacklevel"} # {}

Quality == "192k"

Running == {v \in DOMAIN job : job[v] = "running"}
Queued == {v \in DOMAIN job : job[v] = "queued"}

\* Items whose conversion exited 0 in this run, and those whose conversion
\* failed or was killed.
Succeeded == {v \in DOMAIN job : job[v] \in {"ok", "handled_ok"}}
Failed == {v \in DOMAIN job : job[v] \in {"fail", "handled_fail"}}

\* ------------------------------------------------------ the quality resolver
\* A quality string is the sequence of its characters.
DigitChars == <<"0", "1", "2", "3", "4", "5", "6", "7", "8", "9">>

IsDigit(c) == \E i \in 1..10 : DigitChars[i] = c

DigitVal(c) == (CHOOSE i \in 1..10 : DigitChars[i] = c) - 1

\* group(1) of re.match(r'(\d+)k?', s): the longest run of digits s starts with.
RECURSIVE LeadingDigits(_)
LeadingDigits(s) ==
  IF s = <<>> \/ ~IsDigit(Head(s)) THEN <<>>
  ELSE <<Head(s)>> \o LeadingDigits(Tail(s))

\* int() of a sequence of digits.
RECURSIVE IntOf(_)
IntOf(d) ==
  IF d = <<>> THEN 0
  ELSE IntOf(SubSeq(d, 1, Len(d) - 1)) * 10 + DigitVal(d[Len(d)])

\* str() of a natural number, as f"{n}" formats it.
RECURSIVE StrOf(_)
StrOf(n) ==
  IF n < 10 THEN <<DigitChars[n + 1]>>
  ELSE StrOf(n \div 10) \o <<DigitChars[(n % 10) + 1]>>

\* A bitrate that may be None.
NoBitrate == [none |-> TRUE, bps |-> 0]
Bitrate(b) == [none |-> FALSE, bps |-> b]

\* parse_quality_to_bps (174-187): None when the string does not start with
\* a digit; else the leading number times 1000, in both branches of the
\* endswith test (so lower-casing changes nothing).
parse_quality_to_bps(quality_str) ==
  LET d == LeadingDigits(quality_str)
  IN IF d = <<>> THEN NoBitrate ELSE Bitrate(IntOf(d) * 1000)

\* Mutant: the test of line 135 lets an equal bitrate through.
TargetHigher_orequal(target_bps, original_bitrate) == target_bps >= original_bitrate

\* Line 135.
TargetHigher(target_bps, original_bitrate) == target_bps > original_bitrate

\* Mutant: the thresholds are compared with < instead of <=.
Mp3Bucket_strict(original_bitrate) ==
  IF original_bitrate < 66000 THEN <<"6", "4", "k">>
  ELSE IF original_bitrate < 98000 THEN <<"9", "6", "k">>
  ELSE IF original_bitrate < 130000 THEN <<"1", "2", "8", "k">>
  ELSE IF original_bitrate < 196000 THEN <<"1", "9", "2", "k">>
  ELSE <<"2", "5", "6", "k">>

\* Lines 141-150.
Mp3Bucket(original_bitrate) ==
  IF original_bitrate <= 66000 THEN <<"6", "4", "k">>
  ELSE IF original_bitrate <= 98000 THEN <<"9", "6", "k">>
  ELSE IF original_bitrate <= 130000 THEN <<"1", "2", "8", "k">>
  ELSE IF original_bitrate <= 196000 THEN <<"1", "9", "2", "k">>
  ELSE <<"2", "5", "6", "k">>

\* Lines 153-162.
AacBucket(original_bitrate) ==
  IF original_bitrate <= 66000 THEN <<"6", "4", "k">>
  ELSE IF original_bitrate <= 98000 THEN <<"9", "6", "k">>
  ELSE IF original_bitrate <= 130000 THEN <<"1", "2", "8", "k">>
  ELSE IF original_bitrate <= 196000 THEN <<"1", "9", "2", "k">>
  ELSE <<"2", "5", "6", "k">>

\* get_adaptive_quality (112-171), given what get_video_audio_bitrate returned.
get_adaptive_quality(target_quality, original_bitrate, audio_format) ==
  IF original_bitrate.none THEN target_quality
  ELSE LET target_bps == parse_quality_to_bps(target_quality)
       IN IF target_bps.none THEN target_quality
          ELSE IF TargetHigher(target_bps.bps, original_bitrate.bps)
               THEN IF audio_format = "mp3" THEN Mp3Bucket(original_bitrate.bps)
                    ELSE IF audio_format = "aac" THEN AacBucket(original_bitrate.bps)
                    ELSE StrOf(original_bitrate.bps \div 1000) \o <<"k">>
               ELSE target_quality

\* ---------------------------------------------------------- the worker call
\* The formats the worker builds a command for (306-326), and one it does not.
SupportedFormats == {"mp3", "aac", "wav", "flac"}
Formats == SupportedFormats \cup {"ogg"}

\* Values of --quality that are tried: 192k (the default), 128k, 64k, 320k,
\* 70k, 32k, 192, 256K and "best".
Qualities ==
  {<<"1", "9", "2", "k">>, <<"1", "2", "8", "k">>, <<"6", "4", "k">>,
   <<"3", "2", "0", "k">>, <<"7", "0", "k">>, <<"3", "2", "k">>,
   <<"1", "9", "2">>, <<"2", "5", "6", "K">>, <<"b", "e", "s", "t">>}

\* What get_video_audio_bitrate (66-109) can return: None, or the integer
\* ffprobe reported (bits per second).
Bitrates ==
  {0, 500, 20000, 60000, 64000, 66000, 66001, 67000, 68000, 96000, 98000, 98001,
   128000, 130000, 130001, 192000, 196000, 196001, 256000, 320000, 1411200}

ProbeResults == {NoBitrate} \cup {Bitrate(b) : b \in Bitrates}

\* What the run of ffprobe at line 75 can come to: it cannot be started, it
\* exits with a non-zero status, its output is no JSON, the JSON has no audio
\* stream, the stream has none of the fields looked for, or it has one of
\* them: bit_rate, tags.BPS, tags.bit_rate (a string, "N/A" when ffprobe
\* does not know the value), or sample_rate and channels.
NotKnown == <<"N", "/", "A">>

FfprobeFailures ==
  {[kind |-> k, text |-> <<>>, sample_rate |-> 0, channels |-> 0] :
     k \in {"cannot_start", "nonzero", "not_json", "no_streams", "no_field"}}

FfprobeOutcomes ==
  FfprobeFailures
  \cup {[kind |-> k, text |-> t, sample_rate |-> 0, channels |-> 0] :
          k \in {"bit_rate", "tags_BPS", "tags_bit_rate"},
          t \in {StrOf(b) : b \in Bitrates} \cup {NotKnown}}
  \cup {[kind |-> "sample_rate", text |-> <<>>, sample_rate |-> 44100, channels |-> 2],
        [kind |-> "sample_rate", text |-> <<>>, sample_rate |-> 8000, channels |-> 1]}

\* int() of a string raises ValueError unless it is a number.
IntRaises(text) == text = <<>> \/ \E i \in 1..Len(text) : ~IsDigit(text[i])

\* The body of the try block of get_video_audio_bitrate (68-105): what it
\* returns, or that it raised.
ProbeBody(ffprobe) ==
  IF ffprobe.kind \in {"cannot_start", "not_json"}
    THEN [raised |-> TRUE, value |-> NoBitrate]
  ELSE IF ffprobe.kind \in {"nonzero", "no_streams", "no_field"}
    THEN [raised |-> FALSE, value |-> NoBitrate]
  ELSE IF ffprobe.kind = "sample_rate"
    THEN [raised |-> FALSE,
          value |-> Bitrate(ffprobe.sample_rate * ffprobe.channels * 16)]
  ELSE IF IntRaises(ffprobe.text)
    THEN [raised |-> TRUE, value |-> NoBitrate]
  ELSE [raised |-> FALSE, value |-> Bitrate(IntOf(ffprobe.text))]

\* Mutant: an exception in the prober yields the bitrate 0.
get_video_audio_bitrate_zero(ffprobe) ==
  IF ProbeBody(ffprobe).raised THEN Bitrate(0) ELSE ProbeBody(ffprobe).value

\* get_video_audio_bitrate (66-109): any exception of the body is caught at
\* 107 and None is returned.
get_video_audio_bitrate(ffprobe) ==
  IF ProbeBody(ffprobe).raised THEN NoBitrate ELSE ProbeBody(ffprobe).value

\* Mutant: main records the quality that was asked for.
ActualQuality_requested(args_quality, result) == args_quality

\* Lines 587-589: the quality main puts in the record, the second component
\* of a result that is a tuple of three, else --quality.
ActualQuality(args_quality, result) ==
  IF result.success THEN result.quality ELSE args_quality

NoResult == [success |-> FALSE, msg |-> "-", quality |-> <<>>]

\* No worker call is looked at.
NoWorker ==
  [pc |-> "idle", audio_format |-> "mp3", use_adaptive |-> FALSE,
   original_quality |-> <<>>, quality |-> <<>>, original_bitrate |-> NoBitrate,
   spawned |-> <<>>, result |-> NoResult, ffprobe |-> "-", cmd |-> <<>>,
   recorded |-> <<>>]

\* The worker function has unpacked its arguments (290-294).
WorkerStart(audio_format, quality, use_adaptive) ==
  [pc |-> "start", audio_format |-> audio_format, use_adaptive |-> use_adaptive,
   original_quality |-> quality, quality |-> quality,
   original_bitrate |-> NoBitrate, spawned |-> <<>>, result |-> NoResult,
   ffprobe |-> "-", cmd |-> <<>>, recorded |-> <<>>]

\* ------------------------------------------------- the choice of the bound
\* No evaluation of lines 518-525 is looked at.
NoChooser ==
  [pc |-> "idle", sequential |-> FALSE, jobs |-> 0, cpu |-> 1, npending |-> 0,
   max_workers |-> 0]

\* main has its arguments (--sequential, -j), the machine its cpu_count()
\* and the partition its pending_files.
ChooserStart(sequential, jobs, cpu, npending) ==
  [pc |-> "args", sequential |-> sequential, jobs |-> jobs, cpu |-> cpu,
   npending |-> npending, max_workers |-> 0]

\* The largest number of pending files that is tried.
MaxPending == Cardinality(Items)

\* ------------------------------------------------------------------- state
Alive == pc \notin {"exited", "killed"}

InPool == pc \in {"par_wait", "par_got", "par_recorded", "par_saving"}

\* The state of the program while no process of it has run yet.
InitRun ==
  /\ run = 0
  /\ pc = "exited"
  /\ video_files = {}
  /\ current_record_file = "None"
  /\ record = EmptyMap
  /\ current_record = EmptyMap
  /\ pending_files = {}
  /\ completed_files = {}
  /\ partitioned = FALSE
  /\ max_workers = 0
  /\ job = EmptyMap
  /\ pool_alive = FALSE
  /\ cur = "-"
  /\ success_count = 0
  /\ exit_code = 0
  /\ interrupted = FALSE
  /\ save_count = EmptyMap
  /\ prev = [files |-> {}, partitioned |-> FALSE, completed |-> {}, ok |-> {},
             failed |-> {}, exit |-> 0, interrupted |-> FALSE]
  /\ worker_handler = "idle"

Init ==
  /\ ledger_file = [st |-> "absent", data |-> EmptyMap]
  /\ out_files = [f \in AudioFiles |-> NoFile]
  /\ InitRun
  /\ worker = NoWorker
  /\ chooser = NoChooser
  /\ ledger_writable = TRUE

\* Ledger files the program did not write whole: cut short or not JSON,
\* JSON that is no object (null), an object whose records have no status.
ForeignLedgers ==
  {TruncatedFile,
   [st |-> "scalar", data |-> EmptyMap],
   [st |-> "ok", data |-> [k \in {"a.mp4", "b.mp4"} |-> [output_file |-> AudioFile(k)]]]}

\* The first run finds such a ledger file, and an output directory that is
\* empty or holds b.mp3.
InitLoad ==
  /\ ledger_file \in ForeignLedgers
  /\ out_files \in {[f \in AudioFiles |-> NoFile],
                     [f \in AudioFiles |-> IF f = "b.mp3"
                                            THEN [st |-> "full", src |-> "b.mp4"]
                                            ELSE NoFile]}
  /\ InitRun
  /\ worker = NoWorker
  /\ chooser = NoChooser
  /\ ledger_writable = TRUE

\* One call of the worker function, for every format, --quality and
\* --adaptive that are tried; no run of the pipeline is looked at.
InitWorker ==
  /\ ledger_file = [st |-> "absent", data |-> EmptyMap]
  /\ out_files = [f \in AudioFiles |-> NoFile]
  /\ InitRun
  /\ worker \in {WorkerStart(f, q, a) : f \in Formats, q \in Qualities, a \in BOOLEAN}
  /\ chooser = NoChooser
  /\ ledger_writable = TRUE

\* The last run has started (line 453) on a directory that holds all three
\* candidates, with no ledger and no output file: more pending items than a
\* pool of two can take at once.
WideRunStarted ==
  /\ ledger_file = [st |-> "absent", data |-> EmptyMap]
  /\ out_files = [f \in AudioFiles |-> NoFile]
  /\ run = MaxRuns
  /\ pc = "start"
  /\ video_files = Items
  /\ current_record_file = "None"
  /\ record = EmptyMap
  /\ current_record = EmptyMap
  /\ pending_files = Items
  /\ completed_files = {}
  /\ partitioned = FALSE
  /\ max_workers = 0
  /\ job = EmptyMap
  /\ pool_alive = FALSE
  /\ cur = "-"
  /\ success_count = 0
  /\ exit_code = -1
  /\ interrupted = FALSE
  /\ save_count = EmptyMap
  /\ prev = [files |-> {}, partitioned |-> FALSE, completed |-> {}, ok |-> {},
             failed |-> {}, exit |-> 0, interrupted |-> FALSE]
  /\ worker_handler = "idle"
  /\ worker = NoWorker
  /\ chooser = NoChooser
  /\ ledger_writable = TRUE

\* No run but the last is left to start, on a disk that holds no ledger and
\* no output file.
LastRunLeft ==
  /\ ledger_file = [st |-> "absent", data |-> EmptyMap]
  /\ out_files = [f \in AudioFiles |-> NoFile]
  /\ run = MaxRuns - 1
  /\ pc = "exited"
  /\ video_files = {}
  /\ current_record_file = "None"
  /\ record = EmptyMap
  /\ current_record = EmptyMap
  /\ pending_files = {}
  /\ completed_files = {}
  /\ partitioned = FALSE
  /\ max_workers = 0
  /\ job = EmptyMap
  /\ pool_alive = FALSE
  /\ cur = "-"
  /\ success_count = 0
  /\ exit_code = 0
  /\ interrupted = FALSE
  /\ save_count = EmptyMap
  /\ prev = [files |-> {}, partitioned |-> FALSE, completed |-> {}, ok |-> {},
             failed |-> {}, exit |-> 0, interrupted |-> FALSE]
  /\ worker_handler = "idle"
  /\ worker = NoWorker
  /\ chooser = NoChooser
  /\ ledger_writable \in BOOLEAN

\* The runs of Spec, and that one.
InitPool == Init \/ WideRunStarted

\* One evaluation of lines 518-525 for every --sequential, -j (argparse
\* takes any integer), cpu_count() and number of pending files tried.
InitBound ==
  /\ ledger_file = [st |-> "absent", data |-> EmptyMap]
  /\ out_files = [f \in AudioFiles |-> NoFile]
  /\ InitRun
  /\ worker = NoWorker
  /\ chooser \in {ChooserStart(s, j, c, n) : s \in BOOLEAN, j \in -1..MaxJobs,
                                              c \in 1..MaxCpu, n \in 0..MaxPending}
  /\ ledger_writable = TRUE

\* ----------------------------------------------------------------- actions
\* A new process: main() up to line 453.  The handlers are installed first
\* (418-419); a missing tool or an empty input directory exits with 1.
StartRun(files, tools) ==
  /\ ~Alive /\ Running = {} /\ run < MaxRuns
  /\ prev' = [files |-> video_files, partitioned |-> partitioned,
              completed |-> completed_files, ok |-> Succeeded, failed |-> Failed,
              exit |-> exit_code, interrupted |-> interrupted]
  /\ run' = run + 1
  /\ video_files' = IF tools THEN files ELSE {}
  /\ current_record_file' = "None"
  /\ record' = EmptyMap
  /\ current_record' = EmptyMap
  /\ pending_files' = IF tools THEN files ELSE {}
  /\ completed_files' = {}
  /\ partitioned' = FALSE
  /\ max_workers' = 0
  /\ job' = EmptyMap
  /\ pool_alive' = FALSE
  /\ cur' = "-"
  /\ success_count' = 0
  /\ interrupted' = FALSE
  /\ save_count' = EmptyMap
  /\ worker_handler' = "idle"
  /\ IF tools /\ files # {}
     THEN pc' = "start" /\ exit_code' = -1
     ELSE pc' = "atexit" /\ exit_code' = 1
  /\ UNCHANGED disk
  /\ UNCHANGED beside_pipeline

\* Lines 455-462: name the ledger file, load it, copy it.
LoadRecord ==
  /\ pc = "start"
  /\ current_record_file' = RecordFileName
  /\ record' = load_extraction_record(ledger_file)
  /\ IF CopyRaises(ledger_file)
     THEN /\ pc' = "atexit" /\ exit_code' = 1
          /\ UNCHANGED current_record
     ELSE /\ pc' = "loaded"
          /\ current_record' = load_extraction_record(ledger_file)
          /\ UNCHANGED exit_code
  /\ UNCHANGED <<disk, run, video_files, pending_files, completed_files,
                 partitioned, max_workers, job, pool_alive, cur, success_count,
                 interrupted, save_count, prev>>
  /\ UNCHANGED beside_pipeline
  /\ UNCHANGED worker_handler

\* Lines 464-530 and 566-575: detect, merge, partition, choose the bound,
\* return when nothing is pending, else enter one of the two loops (the
\* parallel one submits every pending item to the pool).  When the status
\* lookup of line 477 raises, the merge is done, the partition is not, and
\* main ends with a traceback and status 1.
MergePartition(sequential, jobs, cpu) ==
  /\ pc = "loaded"
  /\ LET auto == check_existing_audio_files(video_files, out_files)
         merged == Merge(record, auto)
         pend == {v \in video_files : ~IsCompleted(merged, v)}
         mw == MaxWorkers(sequential, jobs, cpu, Cardinality(pend))
     IN /\ record' = merged
        /\ current_record' = Merge(current_record, auto)
        /\ IF StatusRaises(merged, video_files)
           THEN /\ pc' = "atexit" /\ exit_code' = 1
                /\ UNCHANGED <<pending_files, completed_files, partitioned,
                               max_workers, job, pool_alive, save_count>>
           ELSE /\ pending_files' = pend
                /\ completed_files' = video_files \ pend
                /\ partitioned' = TRUE
                /\ max_workers' = mw
                /\ IF pend = {}
                   THEN /\ pc' = "atexit" /\ exit_code' = 0
                        /\ UNCHANGED <<job, pool_alive, save_count>>
                   ELSE /\ pc' = IF mw = 1 THEN "seq" ELSE "par_wait"
                        /\ job' = [v \in pend |-> "queued"]
                        /\ save_count' = [v \in pend |-> 0]
                        /\ pool_alive' = (mw # 1)
                        /\ UNCHANGED exit_code
  /\ UNCHANGED <<disk, run, video_files, current_record_file, cur,
                 success_count, interrupted, prev>>
  /\ UNCHANGED beside_pipeline
  /\ UNCHANGED worker_handler

\* Lines 547-564, one iteration of the sequential loop.  The logging call
\* that opens the iteration raises, nothing catches it, and the process
\* ends with status 1 (the exit handler still runs).  The rest of the
\* iteration is what the code would do if the call returned.
SeqIteration(v, ok) ==
  /\ pc = "seq"
  /\ v \in Queued
  /\ IF LoggingInfoRaises({"end"})
     THEN /\ pc' = "atexit"
          /\ exit_code' = 1
          /\ UNCHANGED <<disk, job, current_record, success_count, save_count>>
     ELSE /\ job' = [job EXCEPT ![v] = IF ok THEN "handled_ok" ELSE "handled_fail"]
          /\ out_files' = [out_files EXCEPT ![AudioFile(v)] =
                             IF ok THEN [st |-> "full", src |-> v]
                                   ELSE [st |-> "partial", src |-> v]]
          /\ success_count' = IF ok THEN success_count + 1 ELSE success_count
          /\ current_record' = IF ok THEN Put(current_record, v, RunRecord(v, Quality))
                                     ELSE current_record
          /\ ledger_file' = IF ok THEN WrittenFile(current_record') ELSE ledger_file
          /\ save_count' = IF ok THEN [save_count EXCEPT ![v] = @ + 1] ELSE save_count
          /\ IF Queued = {v}
             THEN pc' = "atexit" /\ exit_code' = 0
             ELSE UNCHANGED <<pc, exit_code>>
  /\ UNCHANGED <<run, video_files, current_record_file, record, pending_files,
                 completed_files, partitioned, max_workers, pool_alive, cur,
                 interrupted, prev>>
  /\ UNCHANGED beside_pipeline
  /\ UNCHANGED worker_handler

\* Mutant: a process of the pool takes a task whatever is running.
JobStart_unbounded(v) ==
  /\ pool_alive
  /\ v \in Queued
  /\ job' = [job EXCEPT ![v] = "running"]
  /\ UNCHANGED <<disk, run, pc, video_files, current_record_file, record,
                 current_record, pending_files, completed_files, partitioned,
                 max_workers, pool_alive, cur, success_count, exit_code,
                 interrupted, save_count, prev>>
  /\ UNCHANGED beside_pipeline
  /\ UNCHANGED worker_handler

\* A worker process takes a submitted task (at most max_workers at a time).
\* The pool goes on after main has left the with block or has died, as long
\* as its processes live: shutdown(wait=True) cancels nothing.
JobStart(v) ==
  /\ pool_alive
  /\ v \in Queued
  /\ Cardinality(Running) < max_workers
  /\ job' = [job EXCEPT ![v] = "running"]
  /\ UNCHANGED <<disk, run, pc, video_files, current_record_file, record,
                 current_record, pending_files, completed_files, partitioned,
                 max_workers, pool_alive, cur, success_count, exit_code,
                 interrupted, save_count, prev>>
  /\ UNCHANGED beside_pipeline
  /\ UNCHANGED worker_handler

\* What a conversion that does not exit 0 leaves of the output file.
Leftover(v, left) ==
  IF left = "keep" THEN out_files[AudioFile(v)] ELSE [st |-> left, src |-> v]

Leftovers == {"keep", "empty", "partial"}

\* extract_audio_from_video_worker (288-349): ffmpeg exits 0 and the output
\* file is whole, or it fails and the file is left as it is.  A conversion
\* whose worker was killed (the signal reached the whole process group, the
\* machine went down) ends as a failed one that nobody reads.
JobFinish(v, ok, left) ==
  /\ v \in Running
  /\ ok => (pool_alive /\ left = "keep")
  /\ job' = [job EXCEPT ![v] = IF ok THEN "ok" ELSE "fail"]
  /\ out_files' = [out_files EXCEPT ![AudioFile(v)] =
                     IF ok THEN [st |-> "full", src |-> v] ELSE Leftover(v, left)]
  /\ UNCHANGED <<ledger_file, run, pc, video_files, current_record_file, record,
                 current_record, pending_files, completed_files, partitioned,
                 max_workers, pool_alive, cur, success_count, exit_code,
                 interrupted, save_count, prev>>
  /\ UNCHANGED beside_pipeline
  /\ UNCHANGED worker_handler

\* Mutant: the test of line 581 is left out, every result counts as a success.
GetResult_nosuccesstest(v) ==
  /\ pc = "par_wait"
  /\ v \in DOMAIN job /\ job[v] \in {"ok", "fail"}
  /\ job' = [job EXCEPT ![v] = IF job[v] = "ok" THEN "handled_ok" ELSE "handled_fail"]
  /\ pc' = "par_got"
  /\ cur' = v
  /\ UNCHANGED <<disk, run, video_files, current_record_file, record,
                 current_record, pending_files, completed_files, partitioned,
                 max_workers, pool_alive, success_count, exit_code, interrupted,
                 save_count, prev>>
  /\ UNCHANGED beside_pipeline
  /\ UNCHANGED worker_handler

\* Lines 577-580: as_completed yields a finished future, main reads its result.
GetResult(v) ==
  /\ pc = "par_wait"
  /\ v \in DOMAIN job /\ job[v] \in {"ok", "fail"}
  /\ IF job[v] = "ok"
     THEN /\ job' = [job EXCEPT ![v] = "handled_ok"]
          /\ pc' = "par_got"
          /\ cur' = v
     ELSE /\ job' = [job EXCEPT ![v] = "handled_fail"]
          /\ UNCHANGED <<pc, cur>>
  /\ UNCHANGED <<disk, run, video_files, current_record_file, record,
                 current_record, pending_files, completed_files, partitioned,
                 max_workers, pool_alive, success_count, exit_code, interrupted,
                 save_count, prev>>
  /\ UNCHANGED beside_pipeline
  /\ UNCHANGED worker_handler

\* Lines 581-597: count the success and put the record in the ledger.
RecordCompletion ==
  /\ pc = "par_got"
  /\ success_count' = success_count + 1
  /\ current_record' = IF current_record_file # "None"
                       THEN Put(current_record, cur, RunRecord(cur, Quality))
                       ELSE current_record
  /\ pc' = "par_recorded"
  /\ UNCHANGED <<disk, run, video_files, current_record_file, record,
                 pending_files, completed_files, partitioned, max_workers, job,
                 pool_alive, cur, exit_code, interrupted, save_count, prev>>
  /\ UNCHANGED beside_pipeline
  /\ UNCHANGED worker_handler

\* Mutant: the OSError of a failed open is not caught and ends main.
SaveOpen_uncaught ==
  /\ pc = "par_recorded"
  /\ IF ledger_writable
     THEN /\ ledger_file' = TruncatedFile
          /\ pc' = "par_saving"
          /\ UNCHANGED <<cur, exit_code>>
     ELSE /\ pc' = "atexit"
          /\ exit_code' = 1
          /\ UNCHANGED <<ledger_file, cur>>
  /\ UNCHANGED <<out_files, run, video_files, current_record_file, record,
                 current_record, pending_files, completed_files, partitioned,
                 max_workers, job, pool_alive, success_count, interrupted,
                 save_count, prev>>
  /\ UNCHANGED beside_pipeline
  /\ UNCHANGED worker_handler

\* Line 598, first half: save_extraction_record opens the file for writing
\* (204).  An open that fails raises OSError, which line 207 catches and
\* logs; the loop goes on with the next future.
SaveOpen ==
  /\ pc = "par_recorded"
  /\ IF ledger_writable
     THEN /\ ledger_file' = TruncatedFile
          /\ pc' = "par_saving"
          /\ UNCHANGED cur
     ELSE /\ pc' = "par_wait"
          /\ cur' = "-"
          /\ UNCHANGED ledger_file
  /\ UNCHANGED <<out_files, run, video_files, current_record_file, record,
                 current_record, pending_files, completed_files, partitioned,
                 max_workers, job, pool_alive, success_count, exit_code,
                 interrupted, save_count, prev>>
  /\ UNCHANGED beside_pipeline
  /\ UNCHANGED worker_handler

\* Line 598, second half: the dump is written (205) and the file closed.  A
\* write that fails leaves the file cut short; line 207 catches the OSError.
SaveWrite ==
  /\ pc = "par_saving"
  /\ IF ledger_writable
     THEN /\ ledger_file' = WrittenFile(current_record)
          /\ save_count' = [save_count EXCEPT ![cur] = @ + 1]
     ELSE UNCHANGED <<ledger_file, save_count>>
  /\ cur' = "-"
  /\ pc' = "par_wait"
  /\ UNCHANGED <<out_files, run, video_files, current_record_file, record,
                 current_record, pending_files, completed_files, partitioned,
                 max_workers, job, pool_alive, success_count, exit_code,
                 interrupted, prev>>
  /\ UNCHANGED beside_pipeline
  /\ UNCHANGED worker_handler

\* Lines 600-617: every future was handled; main returns.
ParDone ==
  /\ pc = "par_wait"
  /\ \A v \in DOMAIN job : job[v] \in {"handled_ok", "handled_fail"}
  /\ pc' = "atexit"
  /\ exit_code' = 0
  /\ pool_alive' = FALSE
  /\ UNCHANGED <<disk, run, video_files, current_record_file, record,
                 current_record, pending_files, completed_files, partitioned,
                 max_workers, job, cur, success_count, interrupted, save_count,
                 prev>>
  /\ UNCHANGED beside_pipeline
  /\ UNCHANGED worker_handler

\* The memory of the orchestrating process goes with it.
ProcessGone ==
  /\ current_record_file' = "None"
  /\ record' = EmptyMap
  /\ current_record' = EmptyMap
  /\ cur' = "-"
  /\ success_count' = 0

\* signal_handler (52-57) on SIGINT in the orchestrating process: save a
\* non-empty ledger, then sys.exit(0).  Inside the with block the SystemExit
\* first runs the executor's shutdown(wait=True), which waits for every
\* submitted task.  group: the signal went to the whole process group
\* (Ctrl-C), so the pool's processes get it too.
Interrupt(group) ==
  /\ Alive /\ pc \notin {"draining", "atexit"}
  /\ ledger_file' = HandlerSave(ledger_file)
  /\ interrupted' = TRUE
  /\ exit_code' = 0
  /\ pc' = IF InPool THEN "draining" ELSE "atexit"
  /\ worker_handler' = IF group /\ InPool THEN "pending" ELSE worker_handler
  /\ UNCHANGED <<out_files, run, video_files, current_record_file, record,
                 current_record, pending_files, completed_files, partitioned,
                 max_workers, job, pool_alive, cur, success_count, save_count,
                 prev>>
  /\ UNCHANGED beside_pipeline

\* signal_handler (52-57) in the processes of the pool.  They were forked at
\* the first submit (575) with the handler installed at 418 and with the
\* globals of that moment: current_record_file, and current_record as it was
\* after the merge (what main's local record still holds).  Each saves that
\* copy if it is non-empty; its sys.exit(0) ends the task it was running
\* (the pool sends the SystemExit back as the task's result) and the
\* process goes on with the next task.  overlap: the write ran into the
\* orchestrator's write of a longer snapshot, and the file is left with the
\* tail of it after the shorter one.
WorkerHandler(overlap) ==
  /\ worker_handler = "pending" /\ pool_alive
  /\ overlap => (record # EmptyMap /\ current_record # record /\ ledger_writable)
  /\ IF record # EmptyMap
     THEN /\ ledger_file' = IF overlap THEN TruncatedFile
                                       ELSE SaveResult(ledger_file, record)
          /\ worker_handler' = "wrote"
     ELSE /\ worker_handler' = "ran"
          /\ UNCHANGED ledger_file
  /\ UNCHANGED <<out_files, run, pc, video_files, current_record_file, record,
                 current_record, pending_files, completed_files, partitioned,
                 max_workers, job, pool_alive, cur, success_count, exit_code,
                 interrupted, save_count, prev>>
  /\ UNCHANGED beside_pipeline

\* shutdown(wait=True) returns: no task is left running or waiting.
DrainDone ==
  /\ pc = "draining"
  /\ Running = {}
  /\ pool_alive => Queued = {}
  /\ worker_handler # "pending"
  /\ pc' = "atexit"
  /\ pool_alive' = FALSE
  /\ UNCHANGED <<disk, run, video_files, current_record_file, record,
                 current_record, pending_files, completed_files, partitioned,
                 max_workers, job, cur, success_count, exit_code, interrupted,
                 save_count, prev>>
  /\ UNCHANGED beside_pipeline
  /\ UNCHANGED worker_handler

\* atexit_handler (60-63), then the process is gone.
AtExit ==
  /\ pc = "atexit"
  /\ ledger_file' = HandlerSave(ledger_file)
  /\ pc' = "exited"
  /\ ProcessGone
  /\ UNCHANGED <<out_files, run, video_files, pending_files, completed_files,
                 partitioned, max_workers, job, pool_alive, exit_code,
                 interrupted, save_count, prev>>
  /\ UNCHANGED beside_pipeline
  /\ UNCHANGED worker_handler

\* The process is killed outright with its workers (SIGKILL or SIGTERM to
\* the process group, power loss): no handler runs.
Crash ==
  /\ Alive
  /\ pc' = "killed"
  /\ exit_code' = 137
  /\ pool_alive' = FALSE
  /\ worker_handler' = IF worker_handler = "pending" THEN "idle" ELSE worker_handler
  /\ ProcessGone
  /\ UNCHANGED <<disk, run, video_files, pending_files, completed_files,
                 partitioned, max_workers, job, interrupted, save_count, prev>>
  /\ UNCHANGED beside_pipeline

Next ==
  \/ \E files \in InputDirs, tools \in BOOLEAN : StartRun(files, tools)
  \/ LoadRecord
  \/ \E sequential \in BOOLEAN, jobs \in 0..MaxJobs, cpu \in 1..MaxCpu :
       MergePartition(sequential, jobs, cpu)
  \/ \E v \in Items, ok \in BOOLEAN : SeqIteration(v, ok)
  \/ \E v \in Items : JobStart(v)
  \/ \E v \in Items, ok \in BOOLEAN, left \in Leftovers : JobFinish(v, ok, left)
  \/ \E v \in Items : GetResult(v)
  \/ RecordCompletion
  \/ SaveOpen
  \/ SaveWrite
  \/ ParDone
  \/ \E group \in BOOLEAN : Interrupt(group)
  \/ \E overlap \in BOOLEAN : WorkerHandler(overlap)
  \/ DrainDone
  \/ AtExit
  \/ Crash

Spec == Init /\ [][Next]_vars

\* The same program, also run on a directory of three candidates.
SpecPool == InitPool /\ [][Next]_vars

\* The environment: the ledger file stops being writable (permissions, a
\* read-only or full file system), and becomes writable again.
DiskFails ==
  /\ ledger_writable
  /\ ledger_writable' = FALSE
  /\ UNCHANGED <<pipeline, worker, chooser>>

DiskRecovers ==
  /\ ~ledger_writable
  /\ ledger_writable' = TRUE
  /\ UNCHANGED <<pipeline, worker, chooser>>

NextFault == Next \/ DiskFails \/ DiskRecovers

\* The last run of the program, on a disk where writing the ledger file can
\* fail.
SpecFault == LastRunLeft /\ [][NextFault]_vars

\* The same program started on a ledger file it did not write whole.
SpecLoad == InitLoad /\ [][Next]_vars

\* ------------------------------------------------- actions of a worker call
\* Lines 297-302 with --adaptive: get_adaptive_quality runs ffprobe on the
\* input (75) and resolves the quality from what get_video_audio_bitrate
\* makes of it.
AdaptQuality(ffprobe) ==
  /\ worker.pc = "start" /\ worker.use_adaptive
  /\ worker' = [worker EXCEPT
       !.pc = "dispatch",
       !.ffprobe = ffprobe.kind,
       !.original_bitrate = get_video_audio_bitrate(ffprobe),
       !.spawned = IF ffprobe.kind # "cannot_start" THEN Append(@, "ffprobe") ELSE @,
       !.quality = get_adaptive_quality(worker.quality,
                                        get_video_audio_bitrate(ffprobe),
                                        worker.audio_format)]
  /\ UNCHANGED beside_worker

\* Lines 303-304 without --adaptive: the quality is used as given.
FixedQuality ==
  /\ worker.pc = "start" /\ ~worker.use_adaptive
  /\ worker' = [worker EXCEPT !.pc = "dispatch"]
  /\ UNCHANGED beside_worker

\* Lines 306-328: build the ffmpeg command of the format, or return the
\* failure for a format that has none.  cmd is the bitrate argument of the
\* command (-ab for mp3, -b:a for aac); wav and flac have none.
BuildCommand ==
  /\ worker.pc = "dispatch"
  /\ worker' = IF worker.audio_format \in SupportedFormats
               THEN [worker EXCEPT !.pc = "run",
                       !.cmd = IF worker.audio_format \in {"mp3", "aac"}
                               THEN worker.quality ELSE <<>>]
               ELSE [worker EXCEPT !.pc = "done",
                       !.result = [success |-> FALSE,
                                   msg |-> "Unsupported audio format",
                                   quality |-> <<>>]]
  /\ UNCHANGED beside_worker

RunOutcomes == {"zero", "nonzero", "raises"}

\* Lines 330-349: run ffmpeg; exit status 0 returns success with the
\* quality used, any other status returns a failure, and a subprocess.run
\* that raises (ffmpeg cannot be started) is caught at 346.
RunFfmpeg(outcome) ==
  /\ worker.pc = "run"
  /\ worker' = [worker EXCEPT
       !.pc = "done",
       !.spawned = IF outcome = "raises" THEN @ ELSE Append(@, "ffmpeg"),
       !.result = IF outcome = "zero"
                  THEN [success |-> TRUE, msg |-> "-", quality |-> worker.quality]
                  ELSE [success |-> FALSE,
                        msg |-> IF outcome = "nonzero" THEN "Extraction failed"
                                ELSE "Error processing file",
                        quality |-> <<>>]]
  /\ UNCHANGED beside_worker

\* Lines 580-597: main takes the result of the future; for a success it
\* puts the quality in the record of the item (task[3] is args.quality).
RecordQuality ==
  /\ worker.pc = "done" /\ worker.result.success
  /\ worker' = [worker EXCEPT
       !.pc = "recorded",
       !.recorded = ActualQuality(worker.original_quality, worker.result)]
  /\ UNCHANGED beside_worker

NextWorker ==
  \/ \E ffprobe \in FfprobeOutcomes : AdaptQuality(ffprobe)
  \/ FixedQuality
  \/ BuildCommand
  \/ \E outcome \in RunOutcomes : RunFfmpeg(outcome)
  \/ RecordQuality

\* One call of extract_audio_from_video_worker on its own.
SpecWorker == InitWorker /\ [][NextWorker]_vars

\* Lines 518-525: main sets max_workers.
ChooseBound ==
  /\ chooser.pc = "args"
  /\ chooser' = [chooser EXCEPT
       !.pc = "chosen",
       !.max_workers = MaxWorkers(chooser.sequential, chooser.jobs, chooser.cpu,
                                  chooser.npending)]
  /\ UNCHANGED <<pipeline, worker, ledger_writable>>

NextBound == ChooseBound

\* The choice of the concurrency bound on its own.
SpecBound == InitBound /\ [][NextBound]_vars

\* ================================================================== claims
\* The previous run went through to its final tally or to "All files have
\* been processed" (exit 0, no signal).
PrevRanToEnd == run >= 2 /\ prev.partitioned /\ prev.exit = 0 /\ ~prev.interrupted

\* C1 (as stated): of two consecutive runs over an unchanged input
\* directory, the second finds every candidate completed and dispatches no
\* conversion.
C1_SecondRunIdle ==
  (PrevRanToEnd /\ partitioned /\ video_files = prev.files) => pending_files = {}

\* C1 (amended): when every conversion the first run dispatched succeeded,
\* the second run over the same input directory finds every candidate
\* completed at partition time and never invokes the executor.
C1_SecondRunIdleAfterSuccess ==
  (PrevRanToEnd /\ prev.failed = {} /\ partitioned /\ video_files = prev.files)
    => (pending_files = {} /\ completed_files = video_files /\ job = EmptyMap)

\* C1 witness: a second run has ended after a first run that converted files.
C1_Witness ==
  /\ PrevRanToEnd /\ prev.failed = {} /\ Cardinality(prev.ok) = 2
  /\ partitioned /\ video_files = prev.files
  /\ pc = "exited" /\ exit_code = 0

\* No other candidate has the same stem, so no other job writes v's output.
Unshared(v) == \A w \in Items \ {v} : AudioFile(w) # AudioFile(v)

\* C2 (as stated): after a run that was interrupted, the next run over the
\* same files classifies as completed exactly the items that were completed
\* before that run or whose conversion succeeded in it, and dispatches
\* exactly the others.
C2_ResumeExact ==
  (run >= 2 /\ prev.partitioned /\ prev.interrupted /\ prev.exit = 0
     /\ partitioned /\ video_files = prev.files
     /\ \A v \in video_files : Unshared(v))
    => /\ completed_files = prev.completed \cup prev.ok
       /\ pending_files = video_files \ (prev.completed \cup prev.ok)
       /\ pc \in {"seq", "par_wait"} => DOMAIN job = pending_files

\* C3 (as stated): every completed record in the ledger file refers to an
\* output file that a successful conversion wrote in full.
C3_CompletedMeansWritten ==
  ledger_file.st = "ok" =>
    \A k \in DOMAIN ledger_file.data :
      (Unshared(k) /\ ledger_file.data[k].status = "completed")
        => out_files[AudioFile(k)].st = "full"

\* C6 (as stated): an item whose conversion failed in a run is pending in
\* the next run, whatever the failed conversion left of the output file.
C6_FailedIsPending ==
  (PrevRanToEnd /\ partitioned) =>
    \A v \in prev.failed \cap video_files : Unshared(v) => v \in pending_files

\* The ledger file holds a completed record for v.
InLedgerFile(v) ==
  /\ ledger_file.st = "ok"
  /\ v \in DOMAIN ledger_file.data
  /\ ledger_file.data[v].status = "completed"

HandledOk == {v \in DOMAIN job : job[v] = "handled_ok"}
HandledFail == {v \in DOMAIN job : job[v] = "handled_fail"}

\* The run reached its final tally: no signal, exit status 0.
RanToEnd == pc \in {"atexit", "exited"} /\ ~interrupted /\ exit_code = 0

\* C4: whenever main is about to take the next job result, every success it
\* has taken so far is in the in-memory ledger and the ledger file holds
\* exactly the in-memory ledger; each success triggers one persist, and at
\* the final tally every successful job has had its persist.
C4_PersistPerSuccess ==
  /\ \A v \in DOMAIN save_count :
       save_count[v] <= 1 /\ (save_count[v] = 1 => job[v] = "handled_ok")
  /\ pc \in {"seq", "par_wait"} =>
       \A v \in HandledOk :
         /\ v \in DOMAIN current_record
         /\ current_record[v].status = "completed"
         /\ ledger_file.st = "ok" /\ ledger_file.data = current_record
         /\ save_count[v] = 1
  /\ (pc = "atexit" /\ RanToEnd) => \A v \in Succeeded : save_count[v] = 1

\* C4 witness: one success is recorded and persisted, the next result waits.
C4_Witness ==
  /\ pc = "par_wait"
  /\ \E v \in HandledOk : save_count[v] = 1 /\ InLedgerFile(v)
  /\ \E w \in DOMAIN job : job[w] = "ok"

\* C5: at the end of a parallel run the ledger, in memory and on disk, has
\* the completed record of every item whose conversion succeeded in the run
\* and no record of an item whose conversion failed (the ledger is a map, so
\* a key has at most one record).
C5_OneRecordPerSuccess ==
  (RanToEnd /\ max_workers > 1) =>
    /\ \A v \in HandledOk : InLedgerFile(v) /\ ledger_file.data[v].output_file = AudioFile(v)
    /\ \A v \in HandledFail : ledger_file.st = "ok" => v \notin DOMAIN ledger_file.data
    /\ pc = "atexit" =>
         /\ \A v \in HandledOk :
              v \in DOMAIN current_record /\ current_record[v].status = "completed"
         /\ \A v \in HandledFail : v \notin DOMAIN current_record
         /\ DOMAIN job = HandledOk \cup HandledFail

\* C5 witness: a parallel run of two jobs ended, one succeeded and one failed.
C5_Witness ==
  /\ RanToEnd /\ pc = "exited" /\ max_workers > 1
  /\ HandledOk # {} /\ HandledFail # {}

\* C7: the partition step gives every candidate that has no entry in the
\* loaded ledger and a non-empty output file an auto-detected completed
\* record, classifies it as completed and submits no job for it; no
\* completed item ever has a job.
C7_AutoDetect ==
  /\ [][(pc = "loaded" /\ partitioned') =>
          \A v \in video_files :
            (v \notin DOMAIN record /\ out_files[AudioFile(v)].st \in {"partial", "full"})
              => /\ v \in DOMAIN current_record'
                 /\ current_record'[v] =
                      [status |-> "completed", output_file |-> AudioFile(v),
                       audio_format |-> "mp3", detected |-> "auto",
                       timestamp |-> "mtime"]
                 /\ v \in completed_files' /\ v \notin pending_files'
                 /\ v \notin DOMAIN job']_vars
  /\ [](\A v \in completed_files : v \notin DOMAIN job)

\* C7 witness: one candidate was auto-detected while another one is converted.
C7_Witness ==
  /\ pc = "par_wait" /\ Running # {}
  /\ \E v \in completed_files :
       /\ v \notin DOMAIN ledger_file.data
       /\ v \in DOMAIN current_record /\ current_record[v] = AutoRecord(v)

\* The ledger file holds every record of the in-memory ledger m.
FileHolds(file, m) ==
  \A k \in DOMAIN m : file.st = "ok" /\ k \in DOMAIN file.data /\ file.data[k] = m[k]

\* C8: the step that handles the interrupt signal leaves the ledger file
\* holding every record of the in-memory ledger, and so does the exit of the
\* interrupted process.
C8_InterruptPersists ==
  /\ [][(~interrupted /\ interrupted') => FileHolds(ledger_file', current_record)]_vars
  /\ [][(interrupted /\ pc = "atexit" /\ pc' = "exited")
          => FileHolds(ledger_file', current_record)]_vars

\* C8 witness: a completion reached the file through the signal handler, not
\* through the persist of the main loop.
C8_Witness ==
  /\ interrupted /\ pc = "draining"
  /\ \E v \in HandledOk : save_count[v] = 0 /\ InLedgerFile(v)

C10_LedgerWhole ==
  ~Alive => ledger_file.st \in {"absent", "ok"}

\* C11: a job that fails never aborts the run: a run that passed setup with
\* pending items and took no signal reaches the final tally (exit 0) with
\* every pending item dispatched and handled, and with a success count equal
\* to the number of jobs that reported success, in sequential mode and in
\* parallel mode.
C11_FailureNeverAborts ==
  (pc = "atexit" /\ partitioned /\ pending_files # {} /\ ~interrupted)
    => /\ exit_code = 0
       /\ \A v \in pending_files : job[v] \in {"handled_ok", "handled_fail"}
       /\ success_count = Cardinality(HandledOk)

\* The keys of a ledger whose record has status 'completed'.
CompletedIn(m) == {k \in DOMAIN m : m[k].status = "completed"}

\* A completed record of m is in m2, still completed.
KeepsCompleted(m, m2) == CompletedIn(m) \subseteq CompletedIn(m2)

\* C12: once a record is completed, no operation of the pipeline takes it
\* away or changes its status.  In memory: no step of a living process does.
\* Load: every completed record of a whole ledger file is in the loaded
\* ledger.  Persist and the two handlers: every write leaves a file with all
\* completed records of the in-memory ledger, which holds all those of the
\* whole file it was loaded from; a whole file stays at least what it was.
\* (A process killed inside a persist is C10.)
C12_CompletedStays ==
  /\ [][(run' = run /\ pc' \notin {"exited", "killed"})
          => KeepsCompleted(current_record, current_record')]_vars
  /\ [][(pc = "start" /\ pc' = "loaded" /\ ledger_file.st = "ok")
          => KeepsCompleted(ledger_file.data, current_record')]_vars
  /\ [][(ledger_file' # ledger_file /\ ledger_file'.st = "ok")
          => KeepsCompleted(current_record, ledger_file'.data)]_vars
  /\ [][(ledger_file.st = "ok" /\ ledger_file'.st = "ok")
          => KeepsCompleted(ledger_file.data, ledger_file'.data)]_vars
  /\ []((pc \notin {"start", "exited", "killed"} /\ current_record_file # "None"
         /\ ledger_file.st = "ok")
          => KeepsCompleted(ledger_file.data, current_record))

\* C13: loading the ledger is never fatal.  A first run that found
\* candidates and an unusable ledger file (cut short, not JSON, JSON that is
\* no mapping of keys to records with a status) and took no signal comes to
\* its end having partitioned the candidates as with an empty ledger: a
\* candidate is counted completed only if its output file was detected.
C13_LoadNeverFatal ==
  (run = 1 /\ video_files # {} /\ pc \in {"atexit", "exited"} /\ ~interrupted)
    => /\ partitioned
       /\ pending_files \cup completed_files = video_files
       /\ \A v \in completed_files : ExistsNonEmpty(out_files[AudioFile(v)])

\* C14: a run that finds the toolchain missing or no candidate input exits
\* with a non-zero status, dispatches no conversion, and leaves the ledger
\* file as it found it: no step of the run, the exit handler included,
\* writes to it.
C14_SetupFailureWritesNothing ==
  /\ []((run >= 1 /\ video_files = {} /\ pc # "killed")
          => (exit_code = 1 /\ job = EmptyMap /\ ~partitioned))
  /\ [][(run' >= 1 /\ video_files' = {}) => ledger_file' = ledger_file]_vars

\* A run that failed its setup has exited, and the ledger an earlier run
\* wrote is still there.
C14_Witness ==
  /\ run = 2 /\ video_files = {} /\ pc = "exited" /\ exit_code = 1
  /\ ledger_file.st = "ok" /\ ledger_file.data # EmptyMap

\* C15: a run that passed setup and took no signal ends with exit status
\* zero, whatever its jobs reported, in sequential and in parallel mode.
C15_ExitZero ==
  (pc \in {"atexit", "exited"} /\ video_files # {} /\ ~interrupted) => exit_code = 0

\* The worker call has resolved the quality it will use.
Resolved == worker.pc \in {"dispatch", "run", "done", "recorded"}

\* C16: a conversion request with an unsupported format returns a failure
\* with the message that names the cause and has spawned no subprocess,
\* neither ffprobe nor ffmpeg, with --adaptive and without.
C16_UnsupportedSpawnsNothing ==
  (worker.pc = "done" /\ worker.audio_format \notin SupportedFormats)
    => /\ ~worker.result.success
       /\ worker.result.msg = "Unsupported audio format"
       /\ worker.spawned = <<>>

\* The resolver was called with a quality that parses and got a bitrate.
Adapted ==
  /\ Resolved /\ worker.use_adaptive
  /\ ~worker.original_bitrate.none
  /\ ~parse_quality_to_bps(worker.original_quality).none

TargetBps == parse_quality_to_bps(worker.original_quality).bps
ProbedBps == worker.original_bitrate.bps

\* C17: when the target quality parses and its bitrate is at or below the
\* probed bitrate, the resolver returns the target string as it was given,
\* for every format.
C17_TargetKept ==
  (Adapted /\ TargetBps <= ProbedBps) => worker.quality = worker.original_quality

\* The equal case with a target that is none of the buckets' strings: 320k
\* for mp3 on a 320000 bps source, and 192 (no k) on a 192000 bps source.
C17_Witness ==
  /\ Adapted /\ TargetBps = ProbedBps
  /\ worker.original_quality \in {<<"3", "2", "0", "k">>, <<"1", "9", "2">>}
  /\ worker.audio_format \in {"mp3", "wav"}
  /\ worker.quality = worker.original_quality

C19_NeverAboveSource ==
  (Adapted /\ TargetBps > ProbedBps)
    => parse_quality_to_bps(worker.quality).bps <= ProbedBps

\* C20: the bitrate of the quality returned never exceeds the bitrate of
\* the target that was asked for.
C20_NeverAboveTarget ==
  (Resolved /\ ~parse_quality_to_bps(worker.original_quality).none)
    => parse_quality_to_bps(worker.quality).bps <= TargetBps

\* C21: in a parallel run, also when an interrupt signal arrives while the
\* pool's processes are alive, no process of the pool ever writes the ledger
\* file: its only writer is the orchestrating process.
C21_OnlyMainWrites == worker_handler # "wrote"

\* C22: after an interrupt signal in a parallel run no conversion job starts
\* that had not started when the signal came.
C22_InterruptAbandons ==
  [][(interrupted /\ run' = run) => Queued \subseteq Queued']_vars

\* The smallest of three numbers.
Min3(a, b, c) ==
  IF a <= b /\ a <= c THEN a ELSE IF b <= c THEN b ELSE c

\* C23 (as stated): the bound is 1 in sequential mode and otherwise the
\* smallest of the requested parallelism, the number of pending items and
\* the number of processing units, for every requested parallelism.
C23_BoundIsMin ==
  chooser.pc = "chosen" =>
    chooser.max_workers =
      IF chooser.sequential THEN 1
      ELSE Min3(chooser.jobs, chooser.npending, chooser.cpu)

\* C23 (amended): the bound is 1 in sequential mode; otherwise it is the
\* requested parallelism itself when that is positive, and the smaller of
\* the number of processing units and the number of pending items when it
\* is zero or negative.
C23_BoundIsJobsOrAuto ==
  chooser.pc = "chosen" =>
    chooser.max_workers =
      IF chooser.sequential THEN 1
      ELSE IF chooser.jobs > 0 THEN chooser.jobs
      ELSE IF chooser.cpu <= chooser.npending THEN chooser.cpu
      ELSE chooser.npending

\* C23 witness: -j asks for more than there are pending items and
\* processing units, and gets it.
C23_Witness ==
  /\ chooser.pc = "chosen" /\ ~chooser.sequential
  /\ chooser.jobs > chooser.npending /\ chooser.jobs > chooser.cpu
  /\ chooser.npending > 0
  /\ chooser.max_workers = chooser.jobs

\* C24: at every instant of a run the number of conversions in progress is
\* at most the concurrency bound chosen at the start of the run, and no step
\* of the run changes that bound once it is chosen.
C24_BoundHolds ==
  /\ [](partitioned => Cardinality(Running) <= max_workers)
  /\ [][(partitioned /\ run' = run) => max_workers' = max_workers]_vars

\* C24 witness: two conversions are in progress under a bound of two while
\* a third job waits.
C24_Witness ==
  /\ max_workers = 2 /\ Cardinality(Running) = 2 /\ Queued # {}

\* C25: a run that takes the sequential path (bound 1) does what the pool
\* does for the same pending items and job outcomes: when it ends without a
\* signal it has attempted every pending item, its success count is the
\* number of successful jobs, and its ledger holds a completed record for
\* each of them.
C25_SequentialAsPoolOfOne ==
  (pc = "atexit" /\ partitioned /\ max_workers = 1 /\ pending_files # {}
     /\ ~interrupted)
    => /\ Succeeded \cup Failed = pending_files
       /\ success_count = Cardinality(Succeeded)
       /\ Succeeded \subseteq CompletedIn(current_record)

\* C26: handling the result of a failed job changes neither the in-memory
\* ledger nor the ledger file, triggers no persist and does not count a
\* success; recording and persisting only ever follow a success, and a
\* failed item's entry in the ledger is what it was at partition time (none,
\* if it had none).
C26_FailureLeavesLedger ==
  /\ [][(run' = run /\ \E v \in DOMAIN job :
            job[v] = "fail" /\ job'[v] = "handled_fail")
          => /\ current_record' = current_record
             /\ ledger_file' = ledger_file
             /\ success_count' = success_count
             /\ save_count' = save_count
             /\ pc' = pc]_vars
  /\ [](pc \in {"par_got", "par_recorded", "par_saving"}
          => (cur \in DOMAIN job /\ job[cur] = "handled_ok"))
  /\ [](\A v \in HandledFail :
          /\ save_count[v] = 0
          /\ (Alive /\ v \in DOMAIN current_record)
               => (v \in DOMAIN record /\ current_record[v] = record[v]))

\* C26 witness: main has handled a failure and a success; the failed item
\* has no record and the file holds the success only.
C26_Witness ==
  /\ pc = "par_wait" /\ success_count = 1 /\ ledger_file.st = "ok"
  /\ \E v \in HandledFail, w \in HandledOk :
       /\ v \notin DOMAIN current_record /\ v \notin DOMAIN ledger_file.data
       /\ w \in DOMAIN ledger_file.data

\* Every entry of ledger m is in m2, unchanged.
KeepsEntries(m, m2) == \A k \in DOMAIN m : k \in DOMAIN m2 /\ m2[k] = m[k]

\* C27: no ledger operation of a run removes a key or alters a record that
\* the ledger holds at partition time.  The merge keeps every loaded entry
\* as it is and adds records only for keys that were absent; a completion
\* is recorded only for an item that was pending; and every whole snapshot
\* written after the partition holds all entries of the partition-time
\* ledger, those of inputs no longer in the directory included.
C27_PartitionTimeEntriesStay ==
  /\ [][(pc = "loaded" /\ run' = run /\ pc' \notin {"loaded", "killed"})
          => /\ KeepsEntries(record, record')
             /\ KeepsEntries(current_record, current_record')
             /\ \A k \in DOMAIN record' \ DOMAIN record :
                  k \in video_files /\ record'[k] = AutoRecord(k)]_vars
  /\ [][(pc = "par_got" /\ pc' = "par_recorded")
          => /\ cur \in pending_files
             /\ DOMAIN current_record' = DOMAIN current_record \cup {cur}
             /\ \A k \in DOMAIN current_record \ {cur} :
                  current_record'[k] = current_record[k]]_vars
  /\ []((Alive /\ partitioned /\ pc # "atexit") => KeepsEntries(record, current_record))
  /\ [][(partitioned /\ Alive /\ ledger_file' # ledger_file /\ ledger_file'.st = "ok")
          => KeepsEntries(record, ledger_file'.data)]_vars

\* C27 witness: a second run on a directory without b.mp4 has persisted a
\* completion of its own, and b.mp4's record of the first run is still in
\* the file.
C27_Witness ==
  /\ run = 2 /\ pc = "par_wait" /\ HandledOk # {} /\ ledger_file.st = "ok"
  /\ "b.mp4" \notin video_files
  /\ "b.mp4" \in DOMAIN ledger_file.data
  /\ \E v \in HandledOk : v \in DOMAIN ledger_file.data

\* C28: a ledger write that fails is caught and never ends the run: after
\* the failed write of the record of a success the orchestrator is back in
\* its loop with the record still in memory, no job state changed and no exit
\* code set; a run that was not interrupted ends only when every pending item
\* was handled, with the records of all successes in memory; and every later
\* write of the orchestrator that succeeds holds all records accumulated so
\* far.
SaveFailsAt(p) == pc = p /\ ~ledger_writable /\ run' = run /\ pc' \notin {p, "draining", "killed"}

C28_WriteFailureIsSurvived ==
  /\ [][(SaveFailsAt("par_recorded") \/ SaveFailsAt("par_saving"))
         => /\ pc' = "par_wait"
            /\ cur \in CompletedIn(current_record)
            /\ current_record' = current_record
            /\ job' = job
            /\ exit_code' = exit_code
            /\ success_count' = success_count
            /\ pool_alive' = pool_alive]_vars
  /\ []((pc = "atexit" /\ ~interrupted /\ partitioned /\ pending_files # {}
          /\ max_workers > 1)
        => /\ exit_code = 0
           /\ DOMAIN job = pending_files
           /\ \A v \in pending_files : job[v] \in {"handled_ok", "handled_fail"}
           /\ HandledOk \subseteq CompletedIn(current_record))
  /\ [][(ledger_file' # ledger_file /\ ledger_file'.st = "ok"
          /\ worker_handler' = worker_handler)
        => ledger_file'.data = current_record]_vars

\* The write of the record of one success failed, and the write after a later
\* success put both records in the file.
C28_Witness ==
  /\ pc = "par_wait" /\ ~interrupted /\ ledger_file.st = "ok"
  /\ \E v \in HandledOk, w \in HandledOk :
       /\ save_count[v] = 0 /\ save_count[w] = 1
       /\ {v, w} \subseteq CompletedIn(ledger_file.data)

\* The run of ffprobe gave the prober no bitrate: it could not be started,
\* exited with a non-zero status, printed no JSON, no stream, none of the
\* fields, or a field that is no number.
ProbeFailed ==
  /\ Resolved /\ worker.use_adaptive
  /\ \/ worker.ffprobe \in {"cannot_start", "nonzero", "not_json", "no_streams",
                            "no_field"}
     \/ /\ worker.ffprobe \in {"bit_rate", "tags_BPS", "tags_bit_rate"}
        /\ worker.original_bitrate.none

TargetUnparsable ==
  /\ Resolved /\ worker.use_adaptive
  /\ parse_quality_to_bps(worker.original_quality).none

\* ffmpeg was run, or the attempt to start it raised (caught at 346).
ConversionAttempted ==
  \/ worker.spawned # <<>> /\ worker.spawned[Len(worker.spawned)] = "ffmpeg"
  \/ worker.result.msg = "Error processing file"

\* C29: when the probe fails in any of those ways, or the target quality
\* does not parse, the resolver hands back the target quality string as it
\* was given and the worker goes on to the format dispatch with it: for a
\* format it has a command for, the bitrate argument of an mp3 or aac command
\* is that string, the next step is the run of ffmpeg, and the call ends with
\* a result that was returned after the conversion was attempted.
C29_ProbeFailureFallsBack ==
  /\ []((ProbeFailed \/ TargetUnparsable)
        => /\ worker.quality = worker.original_quality
           /\ worker.original_bitrate.none \/ TargetUnparsable
           /\ (worker.pc \in {"run", "done", "recorded"}
               /\ worker.audio_format \in {"mp3", "aac"})
                => worker.cmd = worker.original_quality
           /\ (worker.pc \in {"done", "recorded"}
               /\ worker.audio_format \in SupportedFormats)
                => ConversionAttempted)
  /\ [][((ProbeFailed \/ TargetUnparsable) /\ worker.pc = "dispatch"
          /\ worker.audio_format \in SupportedFormats)
        => worker'.pc = "run"]_vars

\* The probe raised on a bit_rate of N/A and ffmpeg was run with the 192k
\* that was asked for; and a probe that found 64000 bps for the target
\* "best" ended the same way.
C29_Witness ==
  /\ worker.pc = "done" /\ worker.result.success /\ worker.audio_format = "mp3"
  /\ worker.spawned = <<"ffprobe", "ffmpeg">>
  /\ \/ /\ ProbeFailed /\ worker.ffprobe = "bit_rate"
        /\ worker.cmd = <<"1", "9", "2", "k">>
     \/ /\ TargetUnparsable /\ worker.original_bitrate = Bitrate(64000)
        /\ worker.cmd = <<"b", "e", "s", "t">>

\* C30: for mp3 and aac, the quality main puts in the record of a successful
\* job is the bitrate argument of the ffmpeg command of that job: the
\* resolved quality with --adaptive, the requested one without.
C30_RecordedQualityIsUsed ==
  (worker.pc = "recorded" /\ worker.audio_format \in {"mp3", "aac"})
    => /\ worker.recorded = worker.cmd
       /\ worker.recorded = IF worker.use_adaptive
                            THEN get_adaptive_quality(worker.original_quality,
                                                      worker.original_bitrate,
                                                      worker.audio_format)
                            ELSE worker.original_quality

\* An aac job asked for 192k, was probed at 67000 bps, ran ffmpeg with 96k
\* and has 96k in its record.
C30_Witness ==
  /\ worker.pc = "recorded" /\ worker.audio_format = "aac" /\ worker.use_adaptive
  /\ worker.original_quality = <<"1", "9", "2", "k">>
  /\ worker.original_bitrate = Bitrate(67000)
  /\ worker.cmd = <<"9", "6", "k">>
  /\ worker.recorded = <<"9", "6", "k">>

\* The six fields the ledger's records are said to have.
SixFields == {"status", "output_file", "audio_format", "quality", "detected", "timestamp"}

\* C31: every record of the ledger, in memory and in a ledger file that was
\* written whole, made for a successful conversion or by auto-detection, has
\* all six fields: status, output file, audio format, quality, detection
\* provenance and timestamp.
C31_SixFieldsEach ==
  /\ \A k \in DOMAIN current_record : SixFields \subseteq DOMAIN current_record[k]
  /\ ledger_file.st = "ok"
       => \A k \in DOMAIN ledger_file.data : SixFields \subseteq DOMAIN ledger_file.data[k]

\* The jobs of the run that have been started (running or over).
Started == {v \in DOMAIN job : job[v] # "queued"}

\* C32: no two candidates of a run have the same output file path; no two
\* jobs of a run that have been started, together or one after the other,
\* write the same output file; and the non-empty output file of an item that
\* counts as completed was written by the conversion of that item.
C32_OutputPathsDistinct ==
  /\ \A v \in video_files, w \in video_files :
       v # w => AudioFile(v) # AudioFile(w)
  /\ \A v \in Started, w \in Started :
       v # w => AudioFile(v) # AudioFile(w)
  /\ partitioned
       => \A v \in completed_files :
            ExistsNonEmpty(out_files[AudioFile(v)])
              => out_files[AudioFile(v)].src = v

====
